---- MODULE Spec2Model ----
(***************************************************************************)
(* Model of main.py: the fixed-width parser input_text_to_df, the          *)
(* aggregator calculate_total_transaction (with combine_column_values and  *)
(* the pandas operations it calls), and the control flow of main.          *)
(*                                                                         *)
(* A Python str is a sequence of one-character strings.  A DataFrame is a  *)
(* record [columns, col]: the ordered column names and, per column, the    *)
(* list of its cells.  A cell is a tagged record: StrCell(s), NumCell(n),  *)
(* NaNCell (pandas' missing number) or None (Python None).                 *)
(***************************************************************************)
EXTENDS Integers, Sequences, FiniteSets, TLC

VARIABLES pc, config_dict, input_text, field_configuration, values,
          transactions_df, client_columns, product_columns,
          grouped_df, first_grouped_df, output_csv, calls

vars == <<pc, config_dict, input_text, field_configuration, values,
          transactions_df, client_columns, product_columns,
          grouped_df, first_grouped_df, output_csv, calls>>

(***************************************************************************)
(* Bounds of the model.                                                    *)
(***************************************************************************)
\* longest text drawn for the parser alone
MaxText == 4
\* longest text the input file of a run of main holds
MaxMainText == 4
\* widest field of a drawn layout
MaxWidth == 2
\* longest field value the round-trip line is composed from
MaxValueLen == 2
\* most rows of a table drawn for the aggregator alone
MaxRows == 2

(***************************************************************************)
(* Python values.                                                          *)
(***************************************************************************)
None == [t |-> "none"]
NL == "\n"
SP == " "
\* the characters str.strip() removes that the drawn texts contain
Whitespace == {SP, NL}

StrCell(s) == [t |-> "str", s |-> s]
NumCell(n) == [t |-> "num", n |-> n]
NaNCell == [t |-> "nan"]

Min(a, b) == IF a < b THEN a ELSE b

\* Bounded sequences over S, of length lo..hi.
SeqsBetween(S, lo, hi) == UNION {[1..n -> S] : n \in lo..hi}

(***************************************************************************)
(* str operations used by the parser.                                      *)
(***************************************************************************)
\* s[a:b] for 0 <= a <= b: the characters at 0-based positions a..b-1 that
\* exist; a slice past the end of s is short or empty, it never raises.
Slice(s, a, b) == SubSeq(s, a + 1, Min(b, Len(s)))

\* s.strip(): leading and trailing whitespace removed.
Strip(s) ==
    LET keep == {i \in 1..Len(s) : s[i] \notin Whitespace}
    IN  IF keep = {} THEN <<>>
        ELSE LET first == CHOOSE i \in keep : \A j \in keep : i <= j
                 last  == CHOOSE i \in keep : \A j \in keep : j <= i
             IN  SubSeq(s, first, last)

\* text.split("\n"): the pieces between the newlines; always at least one.
RECURSIVE Split(_)
Split(text) ==
    LET nls == {i \in 1..Len(text) : text[i] = NL}
    IN  IF nls = {} THEN <<text>>
        ELSE LET i == CHOOSE k \in nls : \A j \in nls : k <= j
             IN  <<SubSeq(text, 1, i - 1)>> \o Split(SubSeq(text, i + 1, Len(text)))

(***************************************************************************)
(* dict of lists (value_table_dict) and DataFrame.                         *)
(***************************************************************************)
EmptyDict == [keys |-> <<>>, val |-> <<>>]

HasKey(d, name) == \E i \in 1..Len(d.keys) : d.keys[i] = name

\* d.setdefault(name, []) followed by d[name].append(v)
DictAppend(d, name, v) ==
    IF HasKey(d, name)
    THEN [d EXCEPT !.val = [k \in DOMAIN d.val |->
                               IF k = name THEN Append(d.val[k], v) ELSE d.val[k]]]
    ELSE [keys |-> Append(d.keys, name),
          val  |-> [k \in (DOMAIN d.val) \cup {name} |->
                       IF k = name THEN <<v>> ELSE d.val[k]]]

\* DataFrame.from_dict(d): one column per key, in insertion order.
FromDict(d) == [columns |-> d.keys, col |-> d.val]

HasColumn(df, name) == \E i \in 1..Len(df.columns) : df.columns[i] = name

NRows(df) == IF df.columns = <<>> THEN 0 ELSE Len(df.col[df.columns[1]])

\* df[name] = cells: replaces the column, or appends a new last column.
SetColumn(df, name, cells) ==
    IF HasColumn(df, name)
    THEN [df EXCEPT !.col = [k \in DOMAIN df.col |->
                                IF k = name THEN cells ELSE df.col[k]]]
    ELSE [columns |-> Append(df.columns, name),
          col     |-> [k \in (DOMAIN df.col) \cup {name} |->
                          IF k = name THEN cells ELSE df.col[k]]]

(***************************************************************************)
(* input_text_to_df                                                        *)
(***************************************************************************)
FileValueUnstripped(line, line_pos, length) == Slice(line, line_pos, line_pos + length)

\* line[line_pos:line_pos + length].strip()
FileValue(line, line_pos, length) == Strip(Slice(line, line_pos, line_pos + length))

NextLinePosByValue(line_pos, length, file_value) == line_pos + Len(file_value)

\* line_pos += length
NextLinePos(line_pos, length, file_value) == line_pos + length

\* the inner loop: for name, length in field_configuration.items()
RECURSIVE ParseFields(_, _, _, _, _)
ParseFields(line, fc, k, line_pos, value_table_dict) ==
    IF k > Len(fc) THEN value_table_dict
    ELSE LET name       == fc[k].name
             length     == fc[k].length
             file_value == FileValue(line, line_pos, length)
         IN  ParseFields(line, fc, k + 1,
                         NextLinePos(line_pos, length, file_value),
                         DictAppend(value_table_dict, name, StrCell(file_value)))

\* the outer loop: for line in text.split("\n")
RECURSIVE ParseLines(_, _, _, _)
ParseLines(lines, fc, i, value_table_dict) ==
    IF i > Len(lines) THEN value_table_dict
    ELSE ParseLines(lines, fc, i + 1,
                    ParseFields(lines[i], fc, 1, 0, value_table_dict))

LinesOfSkipEmpty(text) == IF text = <<>> THEN <<>> ELSE Split(text)

LinesOf(text) == Split(text)

input_text_to_df(text, fc) == FromDict(ParseLines(LinesOf(text), fc, 1, EmptyDict))

(***************************************************************************)
(* pandas.to_numeric(series), errors='raise'.                              *)
(***************************************************************************)
DigitChars == <<"0", "1", "2", "3", "4", "5", "6", "7", "8", "9">>

IsDigit(c) == \E d \in 1..Len(DigitChars) : DigitChars[d] = c

DigitValue(c) == (CHOOSE d \in 1..Len(DigitChars) : DigitChars[d] = c) - 1

RECURSIVE ParseInt(_)
ParseInt(s) ==
    IF s = <<>> THEN 0
    ELSE ParseInt(SubSeq(s, 1, Len(s) - 1)) * Len(DigitChars) + DigitValue(s[Len(s)])

\* A str cell parses when it is all digits; the empty string parses too, to
\* the missing number NaN.  Any other string makes the whole call raise.
Parses(cell) ==
    cell.t # "str" \/ \A i \in 1..Len(cell.s) : IsDigit(cell.s[i])

NumericOf(cell) ==
    IF cell.t = "str"
    THEN IF cell.s = <<>> THEN NaNCell ELSE NumCell(ParseInt(cell.s))
    ELSE IF cell.t = "none" THEN NaNCell ELSE cell

\* [ok |-> FALSE]: ValueError raised; otherwise the converted column.
to_numeric(cells) ==
    IF \A i \in 1..Len(cells) : Parses(cells[i])
    THEN [ok |-> TRUE, cells |-> [i \in 1..Len(cells) |-> NumericOf(cells[i])]]
    ELSE [ok |-> FALSE, cells |-> <<>>]

(***************************************************************************)
(* combine_column_values, applied to row i of df (df.apply, axis=1).       *)
(***************************************************************************)
RECURSIVE Join(_, _)
\* sep.join(strs)
Join(sep, strs) ==
    IF Len(strs) = 0 THEN <<>>
    ELSE IF Len(strs) = 1 THEN strs[1]
    ELSE strs[1] \o sep \o Join(sep, Tail(strs))

\* row[column_list] raises KeyError when column_list is None or names a
\* column the row lacks; "_".join raises TypeError on a cell that is not a
\* str.  The bare except logs and the function returns None.
combine_column_values(df, i, column_list) ==
    IF column_list = None THEN None
    ELSE IF \E k \in 1..Len(column_list.names) : ~HasColumn(df, column_list.names[k])
    THEN None
    ELSE LET cells == [k \in 1..Len(column_list.names) |-> df.col[column_list.names[k]][i]]
         IN  IF \E k \in 1..Len(cells) : cells[k].t # "str" THEN None
             ELSE StrCell(Join(<<"_">>, [k \in 1..Len(cells) |-> cells[k].s]))

\* df.apply(combine_column_values, axis=1, column_list=column_list)
Apply(df, column_list) ==
    [i \in 1..NRows(df) |-> combine_column_values(df, i, column_list)]

(***************************************************************************)
(* groupby(['product_info', 'client_info']).agg(sum).reset_index()         *)
(***************************************************************************)
CharCode(c) ==
    CASE c = NL -> 10
      [] c = SP -> 32
      [] IsDigit(c) -> 48 + DigitValue(c)
      [] c = "_" -> 95
      [] OTHER -> 97

RECURSIVE StrLess(_, _)
StrLess(a, b) ==
    IF b = <<>> THEN FALSE
    ELSE IF a = <<>> THEN TRUE
    ELSE IF a[1] # b[1] THEN CharCode(a[1]) < CharCode(b[1])
    ELSE StrLess(Tail(a), Tail(b))

\* keys are pairs <<product_info, client_info>> of str cells
KeyLess(k1, k2) ==
    \/ StrLess(k1[1].s, k2[1].s)
    \/ k1[1] = k2[1] /\ StrLess(k1[2].s, k2[2].s)

RECURSIVE SortKeys(_)
SortKeys(S) ==
    IF S = {} THEN <<>>
    ELSE LET m == CHOOSE k \in S : \A o \in S \ {k} : KeyLess(k, o)
         IN  <<m>> \o SortKeys(S \ {m})

RowKey(df, i) == <<df.col["product_info"][i], df.col["client_info"][i]>>

\* groupby's default dropna=True: a row whose product_info or client_info
\* is None belongs to no group.
KeptRows(df) ==
    {i \in 1..NRows(df) : df.col["product_info"][i] # None /\ df.col["client_info"][i] # None}

MembersByProduct(df, key) == {i \in KeptRows(df) : RowKey(df, i)[1] = key[1]}

Members(df, key) == {i \in KeptRows(df) : RowKey(df, i) = key}

RECURSIVE SumCells(_, _)
\* 'sum' skips NaN; the sum of no numbers is 0
SumCells(cells, rows) ==
    IF rows = {} THEN 0
    ELSE LET i == CHOOSE r \in rows : TRUE
         IN  (IF cells[i].t = "num" THEN cells[i].n ELSE 0) + SumCells(cells, rows \ {i})

\* grouped_df['quantity_long_sum'] - grouped_df['quantity_short_sum']
Total(long, short) == long - short

GroupedColumns ==
    <<"product_info", "client_info", "quantity_long_sum", "quantity_short_sum",
      "total_transaction_amount">>

GroupRow(df, key) ==
    LET long  == SumCells(df.col["quantity_long_sum"], Members(df, key))
        short == SumCells(df.col["quantity_short_sum"], Members(df, key))
    IN  [product_info |-> key[1], client_info |-> key[2],
         quantity_long_sum |-> long, quantity_short_sum |-> short,
         total_transaction_amount |-> Total(long, short)]

\* one row per key pair, in sorted key order (groupby's sort=True)
GroupBySum(df) ==
    LET keys == SortKeys({RowKey(df, i) : i \in KeptRows(df)})
    IN  [columns |-> GroupedColumns,
         rows    |-> [g \in 1..Len(keys) |-> GroupRow(df, keys[g])]]

(***************************************************************************)
(* calculate_total_transaction: the table as the call leaves it (columns   *)
(* are added in place, up to the statement that raised) and the value      *)
(* returned: the grouped table, or None when anything raised.              *)
(***************************************************************************)
Outcome(df, grouped) == [df |-> df, grouped |-> grouped]

calculate_total_transaction(df, group_by_client_info_columns, group_by_product_info_columns) ==
    IF ~HasColumn(df, "quantity_long") THEN Outcome(df, None)
    ELSE LET long == to_numeric(df.col["quantity_long"])
    IN  IF ~long.ok THEN Outcome(df, None)
    ELSE LET df1 == SetColumn(df, "quantity_long_sum", long.cells)
    IN  IF ~HasColumn(df1, "quantity_short") THEN Outcome(df1, None)
    ELSE LET short == to_numeric(df1.col["quantity_short"])
    IN  IF ~short.ok THEN Outcome(df1, None)
    ELSE LET df2 == SetColumn(df1, "quantity_short_sum", short.cells)
             df3 == SetColumn(df2, "client_info", Apply(df2, group_by_client_info_columns))
             df4 == SetColumn(df3, "product_info", Apply(df3, group_by_product_info_columns))
         IN  Outcome(df4, GroupBySum(df4))

(***************************************************************************)
(* df_rename and df_to_csv                                                 *)
(***************************************************************************)
\* col_name.replace("_", " ").title(), for the columns of the grouped table
Title(col_name) ==
    CASE col_name = "product_info" -> "Product Info"
      [] col_name = "client_info" -> "Client Info"
      [] col_name = "quantity_long_sum" -> "Quantity Long Sum"
      [] col_name = "quantity_short_sum" -> "Quantity Short Sum"
      [] col_name = "total_transaction_amount" -> "Total Transaction Amount"
      [] OTHER -> col_name

\* df.rename(columns=column_dict, inplace=True)
df_rename(df) ==
    LET titles == [i \in 1..Len(df.columns) |-> Title(df.columns[i])]
        old(t) == CHOOSE i \in 1..Len(df.columns) : titles[i] = t
    IN  [columns |-> titles,
         rows    |-> [g \in 1..Len(df.rows) |->
                        [t \in {titles[i] : i \in 1..Len(titles)} |->
                            df.rows[g][df.columns[old(t)]]]]]

\* df.to_csv(csv_path, index=False): the header line and one line per row
CsvOf(df) ==
    [header |-> df.columns,
     lines  |-> [g \in 1..Len(df.rows) |->
                   [i \in 1..Len(df.columns) |-> df.rows[g][df.columns[i]]]]]

(***************************************************************************)
(* Inputs.                                                                 *)
(***************************************************************************)
List(names) == [names |-> names]
Dict(items) == [items |-> items]
Field(name, length) == [name |-> name, length |-> length]

\* characters of the texts drawn for the parser
TextChars == {SP, NL, "1", "a"}
\* characters of the field values a round-trip line is composed from
ValueChars == {SP, "1", "a"}

LayoutNames == {"client", "quantity_long"}

\* ordered mappings of distinct names to positive widths
Layouts ==
    {<<>>}
    \cup {<<Field(n, w)>> : n \in LayoutNames, w \in 1..MaxWidth}
    \cup {<<Field(n1, w1), Field(n2, w2)>> :
            <<n1, n2>> \in {p \in LayoutNames \X LayoutNames : p[1] # p[2]},
            <<w1, w2>> \in (1..MaxWidth) \X (1..MaxWidth)}

\* the layout of a run of main and of the tables drawn for the aggregator
TransactionFields == <<"client", "product", "quantity_long", "quantity_short">>

MainLayout == [k \in 1..Len(TransactionFields) |-> Field(TransactionFields[k], 1)]

MainChars == {SP, NL, "1", "a"}

LogLevels == {None, StrCell("INFO"), StrCell("NOPE")}

MainColumnLists == {None, List(<<"client">>), List(<<"product">>)}

Configs ==
    [python_log_level : LogLevels,
     input_file_path : {None, StrCell("input.txt")},
     field_configuration : {None, Dict(MainLayout)},
     group_by_client_info_columns : MainColumnLists,
     group_by_product_info_columns : MainColumnLists,
     output_csv_path : {None, StrCell("output.csv")}]

\* tables the parser can produce under the transaction layout
ClientValues == {<<>>, <<"_">>}
ProductValues == {<<>>, <<"_">>}
LongValues == {<<>>, <<"3">>, <<"a">>}
ShortValues == {<<>>, <<"1">>}

TableRows ==
    [client : ClientValues, product : ProductValues,
     quantity_long : LongValues, quantity_short : ShortValues]

TableOf(rows) ==
    [columns |-> TransactionFields,
     col     |-> [c \in {TransactionFields[k] : k \in 1..Len(TransactionFields)} |->
                    [i \in 1..Len(rows) |-> StrCell(rows[i][c])]]]

Tables == {TableOf(rows) : rows \in SeqsBetween(TableRows, 1, MaxRows)}

ClientColumnLists ==
    {List(<<"client">>), List(<<"client", "product">>), List(<<"branch">>),
     List(<<"product_info">>)}

ProductColumnLists ==
    {List(<<"product">>), List(<<"product", "client">>), List(<<"branch">>)}

(***************************************************************************)
(* The parser alone: a drawn text and layout, then input_text_to_df.       *)
(***************************************************************************)
InitParse ==
    /\ pc = "parse"
    /\ input_text \in {StrCell(s) : s \in SeqsBetween(TextChars, 0, MaxText)}
    /\ field_configuration \in {Dict(l) : l \in Layouts}
    /\ transactions_df = None
    /\ values = None
    /\ config_dict = None
    /\ client_columns = None
    /\ product_columns = None
    /\ grouped_df = None
    /\ first_grouped_df = None
    /\ output_csv = None
    /\ calls = <<>>

ParseText ==
    /\ pc = "parse"
    /\ transactions_df' = input_text_to_df(input_text.s, field_configuration.items)
    /\ pc' = "parsed"
    /\ UNCHANGED <<config_dict, input_text, field_configuration, values,
                   client_columns, product_columns, grouped_df, first_grouped_df,
                   output_csv, calls>>

NextParse == ParseText

SpecParse == InitParse /\ [][NextParse]_vars

(***************************************************************************)
(* Properties of the parser.                                               *)
(***************************************************************************)
LayoutNamesOf(fc) == [k \in 1..Len(fc) |-> fc[k].name]

\* the number of newline-delimited lines of a text
NumLines(text) == 1 + Cardinality({j \in 1..Len(text) : text[j] = NL})

\* the number of newlines before position j of text
NewlinesBefore(text, j) == Cardinality({m \in 1..(j - 1) : text[m] = NL})

\* line i of text, as the characters of text that i-1 newlines precede
LineChars(text, i) ==
    LET at == {j \in 1..Len(text) : text[j] # NL /\ NewlinesBefore(text, j) = i - 1}
        RECURSIVE InOrder(_)
        InOrder(S) == IF S = {} THEN <<>>
                      ELSE LET j == CHOOSE m \in S : \A o \in S : m <= o
                           IN  <<text[j]>> \o InOrder(S \ {j})
    IN  InOrder(at)

\* the sum of the configured widths of the fields before field k
RECURSIVE Offset(_, _)
Offset(fc, k) == IF k = 1 THEN 0 ELSE Offset(fc, k - 1) + fc[k - 1].length

\* the characters of line that lie in field k's configured range
FieldChars(line, fc, k) ==
    LET at == {j \in 1..Len(line) : Offset(fc, k) < j /\ j <= Offset(fc, k) + fc[k].length}
    IN  [m \in 1..Cardinality(at) |-> line[Offset(fc, k) + m]]

Parsed == pc = "parsed" /\ values = None

\* C1 as stated: parsing the empty string yields zero rows and the layout's
\* columns in declaration order.
C1_EmptyTextZeroRows ==
    (Parsed /\ input_text.s = <<>>) =>
        /\ NRows(transactions_df) = 0
        /\ transactions_df.columns = LayoutNamesOf(field_configuration.items)

\* C1 as amended: parsing the empty string yields the layout's columns in
\* declaration order, each holding exactly one cell, the empty string (one
\* row of empty values; no row only when the layout has no field).
C1_EmptyTextOneEmptyRow ==
    (Parsed /\ input_text.s = <<>>) =>
        /\ transactions_df.columns = LayoutNamesOf(field_configuration.items)
        /\ \A k \in 1..Len(transactions_df.columns) :
              transactions_df.col[transactions_df.columns[k]] = <<StrCell(<<>>)>>
        /\ NRows(transactions_df) = IF field_configuration.items = <<>> THEN 0 ELSE 1

C1_Witness ==
    /\ Parsed
    /\ input_text.s = <<>>
    /\ Len(field_configuration.items) = 2
    /\ NRows(transactions_df) = 1

\* C2: a text of N newline-delimited lines parses, under a layout with at
\* least one field, to exactly N rows: every column has N cells, and the
\* cell of line i and field k is the trimmed run of the characters of line i
\* that lie in the range starting at the sum of the widths of the fields
\* before k and as long as field k's width (short or empty past the line's
\* end).
C2_RowPerLine ==
    (Parsed /\ field_configuration.items # <<>>) =>
        LET fc == field_configuration.items
            N  == NumLines(input_text.s)
        IN  /\ NRows(transactions_df) = N
            /\ transactions_df.columns = LayoutNamesOf(fc)
            /\ \A k \in 1..Len(fc) :
                  /\ Len(transactions_df.col[fc[k].name]) = N
                  /\ \A i \in 1..N :
                        transactions_df.col[fc[k].name][i] =
                            StrCell(Strip(FieldChars(LineChars(input_text.s, i), fc, k)))

\* a short first line, a trailing empty line, two fields
C2_Witness ==
    /\ Parsed
    /\ Len(field_configuration.items) = 2
    /\ Len(input_text.s) = 2
    /\ input_text.s[2] = NL
    /\ NRows(transactions_df) = 2
    /\ transactions_df.col[field_configuration.items[2].name] = <<StrCell(<<>>), StrCell(<<>>)>>

(***************************************************************************)
(* Round trip: a line composed from field values, then input_text_to_df.   *)
(***************************************************************************)
Spaces(n) == [i \in 1..n |-> SP]

\* value padded with spaces (str.ljust or str.rjust) or cut to width
PadOrTruncate(value, width, justify) ==
    IF Len(value) >= width THEN SubSeq(value, 1, width)
    ELSE IF justify = "ljust" THEN value \o Spaces(width - Len(value))
    ELSE Spaces(width - Len(value)) \o value

RECURSIVE ComposedLine(_, _, _, _)
ComposedLine(fc, fields, justify, k) ==
    IF k > Len(fc) THEN <<>>
    ELSE PadOrTruncate(fields[k], fc[k].length, justify)
         \o ComposedLine(fc, fields, justify, k + 1)

InitRoundTrip ==
    /\ pc = "compose"
    /\ field_configuration \in {Dict(l) : l \in Layouts \ {<<>>}}
    /\ values \in {[fields |-> f, justify |-> j] :
                     f \in [1..Len(field_configuration.items) ->
                              SeqsBetween(ValueChars, 0, MaxValueLen)],
                     j \in {"ljust", "rjust"}}
    /\ input_text = None
    /\ transactions_df = None
    /\ config_dict = None
    /\ client_columns = None
    /\ product_columns = None
    /\ grouped_df = None
    /\ first_grouped_df = None
    /\ output_csv = None
    /\ calls = <<>>

ComposeLine ==
    /\ pc = "compose"
    /\ input_text' = StrCell(ComposedLine(field_configuration.items, values.fields,
                                          values.justify, 1))
    /\ pc' = "parse"
    /\ UNCHANGED <<config_dict, field_configuration, values, transactions_df,
                   client_columns, product_columns, grouped_df, first_grouped_df,
                   output_csv, calls>>

NextRoundTrip == ComposeLine \/ ParseText

SpecRoundTrip == InitRoundTrip /\ [][NextRoundTrip]_vars

\* C3: parsing a line composed of the field values, each padded or cut to
\* its field's width, yields one row in which every field is the trimmed
\* form of the padded or cut value placed at that field.
C3_RoundTrip ==
    (pc = "parsed" /\ values # None) =>
        LET fc == field_configuration.items
        IN  /\ NRows(transactions_df) = 1
            /\ \A k \in 1..Len(fc) :
                  transactions_df.col[fc[k].name] =
                      <<StrCell(Strip(PadOrTruncate(values.fields[k], fc[k].length,
                                                    values.justify)))>>

\* two fields, the first value cut to its width, the second padded
C3_Witness ==
    /\ pc = "parsed"
    /\ values # None
    /\ Len(field_configuration.items) = 2
    /\ Len(values.fields[1]) > field_configuration.items[1].length
    /\ Len(values.fields[2]) < field_configuration.items[2].length
    /\ values.fields[2] # <<>>
    /\ transactions_df.col[field_configuration.items[2].name][1].s = values.fields[2]

(***************************************************************************)
(* The aggregator alone: a drawn table and key field lists, then           *)
(* calculate_total_transaction twice on the same table object.             *)
(***************************************************************************)
InitAggregate ==
    /\ pc = "aggregate"
    /\ transactions_df \in Tables
    /\ client_columns \in ClientColumnLists
    /\ product_columns \in ProductColumnLists
    /\ input_text = None
    /\ field_configuration = None
    /\ values = None
    /\ config_dict = None
    /\ grouped_df = None
    /\ first_grouped_df = None
    /\ output_csv = None
    /\ calls = <<>>

FirstCall ==
    /\ pc = "aggregate"
    /\ LET out == calculate_total_transaction(transactions_df, client_columns, product_columns)
       IN  /\ transactions_df' = out.df
           /\ grouped_df' = out.grouped
           /\ first_grouped_df' = out.grouped
    /\ pc' = "aggregated"
    /\ UNCHANGED <<config_dict, input_text, field_configuration, values,
                   client_columns, product_columns, output_csv, calls>>

SecondCall ==
    /\ pc = "aggregated"
    /\ LET out == calculate_total_transaction(transactions_df, client_columns, product_columns)
       IN  /\ transactions_df' = out.df
           /\ grouped_df' = out.grouped
    /\ pc' = "aggregated_twice"
    /\ UNCHANGED <<config_dict, input_text, field_configuration, values,
                   client_columns, product_columns, first_grouped_df, output_csv, calls>>

NextAggregate == FirstCall \/ SecondCall

SpecAggregate == InitAggregate /\ [][NextAggregate]_vars

(***************************************************************************)
(* Properties of the aggregator.                                           *)
(***************************************************************************)
Aggregated == pc = "aggregated" /\ grouped_df # None

Groups == 1..Len(grouped_df.rows)

GroupKey(g) == <<grouped_df.rows[g].product_info, grouped_df.rows[g].client_info>>

\* the (product_info, client_info) pair derived for input row i
PairOf(i) == <<transactions_df.col["product_info"][i], transactions_df.col["client_info"][i]>>

\* the number an input quantity string stands for; a missing (empty)
\* quantity adds nothing to a sum
Quantity(cell) == IF cell.s = <<>> THEN 0 ELSE ParseInt(cell.s)

\* the sum of column name of the input over the rows in S
RECURSIVE InputSum(_, _, _)
InputSum(name, S, n) ==
    IF n = 0 THEN 0
    ELSE InputSum(name, S, n - 1)
         + (IF n \in S THEN Quantity(transactions_df.col[name][n]) ELSE 0)

\* C4: every emitted group's quantity_long_sum is the sum of quantity_long
\* over exactly the input rows whose (product_info, client_info) pair is the
\* group's key, likewise quantity_short_sum, and its
\* total_transaction_amount is the first sum minus the second.
C4_SumInvariant ==
    Aggregated =>
        \A g \in Groups :
            LET row  == grouped_df.rows[g]
                rows == {i \in 1..NRows(transactions_df) : PairOf(i) = GroupKey(g)}
                n    == NRows(transactions_df)
            IN  /\ rows # {}
                /\ row.quantity_long_sum = InputSum("quantity_long", rows, n)
                /\ row.quantity_short_sum = InputSum("quantity_short", rows, n)
                /\ row.total_transaction_amount =
                       InputSum("quantity_long", rows, n) - InputSum("quantity_short", rows, n)

\* one group summing two rows, beside no other group
C4_Witness ==
    /\ Aggregated
    /\ NRows(transactions_df) = 2
    /\ Len(grouped_df.rows) = 1
    /\ grouped_df.rows[1].quantity_long_sum = 6
    /\ grouped_df.rows[1].quantity_short_sum = 2
    /\ grouped_df.rows[1].total_transaction_amount = 4

\* C5 as stated: every input row is counted in exactly one output group, and
\* the output group keys are exactly the (product_info, client_info) pairs of
\* the input rows, the undefined key included.
C5_GroupingComplete ==
    Aggregated =>
        /\ \A i \in 1..NRows(transactions_df) :
              Cardinality({g \in Groups : GroupKey(g) = PairOf(i)}) = 1
        /\ {GroupKey(g) : g \in Groups} = {PairOf(i) : i \in 1..NRows(transactions_df)}

\* C7 as stated: a second call on the same table object with the same key
\* field lists returns the same grouped table as the first.
C7_Idempotent ==
    pc = "aggregated_twice" => grouped_df = first_grouped_df

NamesOf(column_list) == {column_list.names[k] : k \in 1..Len(column_list.names)}

InputColumns == {TransactionFields[k] : k \in 1..Len(TransactionFields)}

\* C10 as stated: when every named key field is a field of the rows, two rows
\* fall into the same output group exactly when they agree on every field of
\* client_key_fields and of product_key_fields.
C10_GroupingFaithful ==
    (Aggregated /\ NamesOf(client_columns) \cup NamesOf(product_columns) \subseteq InputColumns) =>
        \A i, j \in 1..NRows(transactions_df) :
            (\E g \in Groups : GroupKey(g) = PairOf(i) /\ GroupKey(g) = PairOf(j))
            <=> (\A c \in NamesOf(client_columns) \cup NamesOf(product_columns) :
                    transactions_df.col[c][i] = transactions_df.col[c][j])

(***************************************************************************)
(* A run of main.  pc is the statement main is about to execute; "failed"  *)
(* is the run ended by an exception that left main, "done" the run ended   *)
(* by main returning.  calls lists the functions invoked so far.           *)
(***************************************************************************)
Init ==
    /\ pc = "read_config"
    /\ config_dict = None
    /\ input_text = None
    /\ field_configuration = None
    /\ values = None
    /\ transactions_df = None
    /\ client_columns = None
    /\ product_columns = None
    /\ grouped_df = None
    /\ first_grouped_df = None
    /\ output_csv = None
    /\ calls = <<>>

\* config_dict = read_config(CONFIG_FILE_PATH): the parsed file, or None
\* when opening or parsing it raised
ReadConfig ==
    /\ pc = "read_config"
    /\ \E c \in Configs \cup {None} : config_dict' = c
    /\ calls' = Append(calls, "read_config")
    /\ pc' = "set_logger"
    /\ UNCHANGED <<input_text, field_configuration, values, transactions_df,
                   client_columns, product_columns, grouped_df, first_grouped_df,
                   output_csv>>

\* set_logger(config_dict.get(...), config_dict.get(...)): config_dict.get
\* raises on None, before set_logger is entered; eval of an unknown level
\* name raises inside it
SetLogger ==
    /\ pc = "set_logger"
    /\ IF config_dict = None
       THEN pc' = "failed" /\ calls' = calls
       ELSE /\ calls' = Append(calls, "set_logger")
            /\ pc' = IF config_dict.python_log_level = StrCell("NOPE")
                     THEN "failed" ELSE "input_file_path"
    /\ UNCHANGED <<config_dict, input_text, field_configuration, values,
                   transactions_df, client_columns, product_columns, grouped_df,
                   first_grouped_df, output_csv>>

\* if input_file_path: input_text = read_input_text(input_file_path), the
\* file's contents, or None when opening or reading it raised;
\* field_configuration = config_dict.get("field_configuration")
ReadInputText ==
    /\ pc = "input_file_path"
    /\ config_dict.input_file_path # None
    /\ \E t \in {None} \cup {StrCell(s) : s \in SeqsBetween(MainChars, 0, MaxMainText)} :
          input_text' = t
    /\ field_configuration' = config_dict.field_configuration
    /\ calls' = Append(calls, "read_input_text")
    /\ pc' = "field_configuration"
    /\ UNCHANGED <<config_dict, values, transactions_df, client_columns,
                   product_columns, grouped_df, first_grouped_df, output_csv>>

\* else: "Couldn't read input_file_path. Hence not proceeding"
NoInputFilePath ==
    /\ pc = "input_file_path"
    /\ config_dict.input_file_path = None
    /\ pc' = "done"
    /\ UNCHANGED <<config_dict, input_text, field_configuration, values,
                   transactions_df, client_columns, product_columns, grouped_df,
                   first_grouped_df, output_csv, calls>>

\* if field_configuration: transactions_df = input_text_to_df(input_text,
\* field_configuration); text.split raises when input_text is None
ParseInputText ==
    /\ pc = "field_configuration"
    /\ field_configuration # None
    /\ calls' = Append(calls, "input_text_to_df")
    /\ IF input_text = None
       THEN pc' = "failed" /\ UNCHANGED transactions_df
       ELSE /\ transactions_df' = input_text_to_df(input_text.s, field_configuration.items)
            /\ pc' = "calculate_total_transaction"
    /\ UNCHANGED <<config_dict, input_text, field_configuration, values,
                   client_columns, product_columns, grouped_df, first_grouped_df,
                   output_csv>>

\* else: "Couldn't read field_configuration ... Hence not proceeding"
NoFieldConfiguration ==
    /\ pc = "field_configuration"
    /\ field_configuration = None
    /\ pc' = "done"
    /\ UNCHANGED <<config_dict, input_text, field_configuration, values,
                   transactions_df, client_columns, product_columns, grouped_df,
                   first_grouped_df, output_csv, calls>>

\* group_by_product_info_columns = config_dict.get("group_by_client_info_columns")
ProductColumnsOf(config) == config.group_by_client_info_columns

\* the two config reads and the call of calculate_total_transaction
CalculateTotalTransaction ==
    /\ pc = "calculate_total_transaction"
    /\ client_columns' = config_dict.group_by_client_info_columns
    /\ product_columns' = ProductColumnsOf(config_dict)
    /\ LET out == calculate_total_transaction(transactions_df, client_columns',
                                              product_columns')
       IN  /\ transactions_df' = out.df
           /\ grouped_df' = out.grouped
    /\ calls' = Append(calls, "calculate_total_transaction")
    /\ pc' = "df_to_csv"
    /\ UNCHANGED <<config_dict, input_text, field_configuration, values,
                   first_grouped_df, output_csv>>

\* df_to_csv(output_csv_path, df): on None both df_rename and to_csv raise
\* and are logged; to_csv(None) returns the text and writes no file
DfToCsv ==
    /\ pc = "df_to_csv"
    /\ IF grouped_df = None
       THEN UNCHANGED <<grouped_df, output_csv>>
       ELSE /\ grouped_df' = df_rename(grouped_df)
            /\ output_csv' = IF config_dict.output_csv_path = None THEN None
                             ELSE CsvOf(grouped_df')
    /\ calls' = Append(calls, "df_to_csv")
    /\ pc' = "done"
    /\ UNCHANGED <<config_dict, input_text, field_configuration, values,
                   transactions_df, client_columns, product_columns, first_grouped_df>>

Next ==
    \/ ReadConfig
    \/ SetLogger
    \/ ReadInputText
    \/ NoInputFilePath
    \/ ParseInputText
    \/ NoFieldConfiguration
    \/ CalculateTotalTransaction
    \/ DfToCsv

Spec == Init /\ [][Next]_vars

(***************************************************************************)
(* Properties of a run of main.                                            *)
(***************************************************************************)
Called(f) == \E k \in 1..Len(calls) : calls[k] = f

\* a quantity that is a number: a non-empty string of digits
IsNumber(cell) == cell.s # <<>> /\ \A k \in 1..Len(cell.s) : IsDigit(cell.s[k])

\* C6 as stated: when the quantity_long or quantity_short value of some row
\* is not a number, calculate_total_transaction yields no grouped table and
\* the run writes no output CSV.
C6_StrictConversion ==
    (/\ Called("calculate_total_transaction")
     /\ HasColumn(transactions_df, "quantity_long")
     /\ HasColumn(transactions_df, "quantity_short")
     /\ \E i \in 1..NRows(transactions_df) :
           \/ ~IsNumber(transactions_df.col["quantity_long"][i])
           \/ ~IsNumber(transactions_df.col["quantity_short"][i]))
    => (grouped_df = None /\ output_csv = None)

\* the run has met a fatal input error: the configuration did not load, it
\* lacks the input path or the field layout, or the input file was unreadable
FatalInputError ==
    /\ Called("read_config")
    /\ \/ config_dict = None
       \/ config_dict.input_file_path = None
       \/ config_dict.field_configuration = None
       \/ Called("read_input_text") /\ input_text = None

\* C8 as stated: in a run with a fatal input error the parser is never
\* invoked, nor the aggregation, nor the CSV writer.
C8_StopsBeforeParsing ==
    FatalInputError =>
        /\ ~Called("input_text_to_df")
        /\ ~Called("calculate_total_transaction")
        /\ ~Called("df_to_csv")

\* C9 as stated: the product_info of every row is derived from the
\* configured product grouping field list.
C9_ProductInfoFromProductList ==
    (Called("calculate_total_transaction") /\ HasColumn(transactions_df, "product_info")) =>
        \A i \in 1..NRows(transactions_df) :
            transactions_df.col["product_info"][i] =
                combine_column_values(transactions_df, i,
                                      config_dict.group_by_product_info_columns)

====
